---- MODULE Spec2Model ----
(***************************************************************************)
(* The absolutetimestamps element (plugins/gstabsolutetimestamps.c): a     *)
(* pass-through GstBaseTransform that, for every buffer with a valid       *)
(* timestamp, prints "<relative> <absolute>\n" to a stdio stream opened by *)
(* start() and closed by stop().                                           *)
(*                                                                         *)
(* The model holds the element's two fields (filename, file), the stdio    *)
(* streams g_fopen has handed out (each with its user-space buffer), the   *)
(* files on disk, the wall clock, and what the last hook call returned and *)
(* posted.  A file's content is held at line granularity.                  *)
(***************************************************************************)
EXTENDS Integers, Sequences, FiniteSets, TLC

VARIABLES
    filename,   \* absolutetimestamps->filename
    file,       \* absolutetimestamps->file: NULL or a stream handle
    streams,    \* the FILE objects g_fopen has returned, by handle
    fs,         \* the files on disk, by path
    real_time,  \* the last wall-clock reading (seconds)
    active,     \* the last start() returned TRUE and stop() has not run since
    last,       \* the last hook call: its inputs, return value, posted errors
    period,     \* history of the current active period: the path opened,
                \* the timestamps of the buffers seen, whether the open
                \* emptied a file that held lines, whether stdio failed,
                \* whether the wall clock was set back between two lines
    nbuffers    \* how many buffers the pipeline has delivered so far

vars ==
    <<filename, file, streams, fs, real_time, active, last, period, nbuffers>>

----------------------------------------------------------------------------
(* Bounds of the model. *)

MaxOpens == 2
MaxUnits == 2

----------------------------------------------------------------------------
(* Values. *)

NULL == 0

DEFAULT_FILENAME == "timestamps.log"

\* The values the location property takes in the model; g_fopen cannot
\* create a file under a directory that does not exist.
Locations == {DEFAULT_FILENAME, "out.log", "nodir/out.log"}
Unwritable == {"nodir/out.log"}

\* A GstClockTime is a 64-bit count of nanoseconds.  It is held as the pair
\* <<t / GST_SECOND, t % GST_SECOND>> of whole seconds and the nanoseconds
\* left (GST_SECOND is 10^9); GST_CLOCK_TIME_NONE, (guint64) -1, is held as
\* <<-1, -1>>.
GST_CLOCK_TIME_NONE == <<-1, -1>>

\* Buffer timestamps of the model: 1.5 s, 1 h 1 min 1.000000001 s, and the
\* unset sentinel.
Timestamps == {GST_CLOCK_TIME_NONE, <<1, 500000000>>, <<3661, 1>>}

Buffers == [pts : Timestamps, data : {"payload"}]

GST_BUFFER_TIMESTAMP(buf) == buf.pts

GST_CLOCK_TIME_IS_VALID(t) == t # GST_CLOCK_TIME_NONE

GST_FLOW_OK == "GST_FLOW_OK"

----------------------------------------------------------------------------
(* printf conversions, as sequences of characters. *)

DigitChars == <<"0", "1", "2", "3", "4", "5", "6", "7", "8", "9">>

RECURSIVE Unsigned(_)
\* %u
Unsigned(n) ==
    IF n < 10 THEN <<DigitChars[n + 1]>>
    ELSE Unsigned(n \div 10) \o <<DigitChars[(n % 10) + 1]>>

\* Mutant: the width of a conversion is not honoured.
ZeroPadNone(s, width) == s

RECURSIVE ZeroPad(_, _)
\* %0<width>u applied to the digits s
ZeroPad(s, width) ==
    IF Len(s) >= width THEN s ELSE ZeroPad(<<"0">> \o s, width)

\* Mutant: the minutes are not reduced modulo 60.
GST_TIME_ARGS_minutes(t) ==
    IF GST_CLOCK_TIME_IS_VALID(t)
    THEN <<t[1] \div (60 * 60), t[1] \div 60, t[1] % 60, t[2]>>
    ELSE <<99, 99, 99, 999999999>>

\* GST_TIME_ARGS (t): hours, minutes, seconds, nanoseconds
GST_TIME_ARGS(t) ==
    IF GST_CLOCK_TIME_IS_VALID(t)
    THEN <<t[1] \div (60 * 60), (t[1] \div 60) % 60, t[1] % 60, t[2]>>
    ELSE <<99, 99, 99, 999999999>>

\* "%" GST_TIME_FORMAT, that is "%u:%02u:%02u.%09u"
GST_TIME_FORMAT(a) ==
    Unsigned(a[1]) \o <<":">> \o ZeroPad(Unsigned(a[2]), 2) \o <<":">>
        \o ZeroPad(Unsigned(a[3]), 2) \o <<".">> \o ZeroPad(Unsigned(a[4]), 9)

\* g_time_val_to_iso8601 of a GTimeVal of tv_sec seconds (below one minute)
\* and no microseconds: UTC, no fraction.
g_time_val_to_iso8601(tv_sec) ==
    <<"1970-01-01T00:00:">> \o ZeroPad(Unsigned(tv_sec), 2) \o <<"Z">>

\* The text g_fprintf produces for "%" GST_TIME_FORMAT " %s\n".
FormatLine(timestamp, s) ==
    GST_TIME_FORMAT(GST_TIME_ARGS(timestamp)) \o <<" ">> \o s \o <<"\n">>

----------------------------------------------------------------------------
(* The state after construction. *)

NoFile == [exists |-> FALSE, data |-> <<>>]

\* What a hook call did: its name and argument, what it returned, how its
\* stdio call went ("none" when it made none), the errors it posted with
\* GST_ELEMENT_ERROR, and (transform_ip) the buffer as the call left it.
Call(op, arg, ret, io, posted, buf) ==
    [op |-> op, arg |-> arg, ret |-> ret, io |-> io, posted |-> posted,
     buf |-> buf]

\* GST_ELEMENT_ERROR (absolutetimestamps, RESOURCE, code, (text with path), ...)
ElementError(code, path) == [domain |-> "RESOURCE", code |-> code, path |-> path]

NoPeriod ==
    [path |-> DEFAULT_FILENAME, units |-> <<>>, truncated |-> FALSE,
     ioerr |-> FALSE, setback |-> FALSE]

Init ==
    /\ filename = DEFAULT_FILENAME
    /\ file = NULL
    /\ streams = <<>>
    /\ fs = [p \in Locations |-> NoFile]
    /\ real_time = 0
    /\ active = FALSE
    /\ last = Call("init", "none", "void", "none", <<>>, "none")
    /\ period = NoPeriod
    /\ nbuffers = 0

----------------------------------------------------------------------------
(* The property hook. *)

\* Mutant: a new location drops the handle of the log being written.
set_property_reset(location) ==
    /\ filename' = location
    /\ file' = NULL
    /\ last' = Call("set_property", location, "void", "none", <<>>, "none")
    /\ UNCHANGED <<streams, fs, real_time, active, period, nbuffers>>

set_property(location) ==
    /\ filename' = location
    /\ last' = Call("set_property", location, "void", "none", <<>>, "none")
    /\ UNCHANGED <<file, streams, fs, real_time, active, period, nbuffers>>

get_property == filename

----------------------------------------------------------------------------
(* stdio. *)

\* Mutant: the file opened in append mode, "ab".
g_fopen_ab(content) == content

\* The content of a file right after g_fopen (path, "wb") opened it.
g_fopen_wb(content) == <<>>

\* A fresh, fully buffered stream on path.
NewStream(path) == [path |-> path, buf |-> <<>>, open |-> TRUE]

\* Mutant: every write starts at offset 0 again.
WriteOver(content, chunk) == chunk

\* write(2) at the stream's position, which is the end of the file: the
\* handle the element holds is the only writer since its g_fopen truncated
\* the file.
WriteOut(content, chunk) == content \o chunk

\* Mutant: the new line goes in front of what is buffered.
BufferedInFront(buf, line) == <<line>> \o buf

\* The stream's buffer after g_fprintf put one more line into it.
Buffered(buf, line) == Append(buf, line)

----------------------------------------------------------------------------
(* start: open the log. *)

\* Mutant: start does not look at what g_fopen returned.
start_ret_unchecked(f) == TRUE

start_ret(f) == IF f = NULL THEN FALSE ELSE TRUE

\* Mutant: start closes the stream it still holds before it opens the log.
start_defensive(ok) ==
    /\ Len(streams) < MaxOpens
    /\ LET opened == ok /\ filename \notin Unwritable
           f == IF opened THEN Len(streams) + 1 ELSE NULL
           closed == IF file = NULL THEN streams
                     ELSE [streams EXCEPT ![file] =
                              [@ EXCEPT !.buf = <<>>, !.open = FALSE]]
       IN
       /\ file' = f
       /\ streams' = IF opened THEN Append(closed, NewStream(filename))
                      ELSE closed
       /\ fs' = IF opened
                 THEN [fs EXCEPT ![filename] =
                          [exists |-> TRUE, data |-> g_fopen_wb(@.data)]]
                 ELSE fs
       /\ active' = start_ret(f)
       /\ last' = Call("start", filename, start_ret(f),
                        IF opened THEN "ok" ELSE "fail",
                        IF f = NULL
                        THEN <<ElementError("OPEN_WRITE", filename)>>
                        ELSE <<>>,
                        "none")
       /\ period' = IF opened
                     THEN [path |-> filename, units |-> <<>>,
                           truncated |-> fs[filename].data # <<>>,
                           ioerr |-> FALSE, setback |-> FALSE]
                     ELSE period
    /\ UNCHANGED <<filename, real_time, nbuffers>>

\* ok: whether the operating system lets g_fopen succeed.
start(ok) ==
    /\ Len(streams) < MaxOpens
    /\ LET opened == ok /\ filename \notin Unwritable
           f == IF opened THEN Len(streams) + 1 ELSE NULL
       IN
       /\ file' = f
       /\ streams' = IF opened THEN Append(streams, NewStream(filename))
                      ELSE streams
       /\ fs' = IF opened
                 THEN [fs EXCEPT ![filename] =
                          [exists |-> TRUE, data |-> g_fopen_wb(@.data)]]
                 ELSE fs
       /\ active' = start_ret(f)
       /\ last' = Call("start", filename, start_ret(f),
                        IF opened THEN "ok" ELSE "fail",
                        IF f = NULL
                        THEN <<ElementError("OPEN_WRITE", filename)>>
                        ELSE <<>>,
                        "none")
       /\ period' = IF opened
                     THEN [path |-> filename, units |-> <<>>,
                           truncated |-> fs[filename].data # <<>>,
                           ioerr |-> FALSE, setback |-> FALSE]
                     ELSE period
    /\ UNCHANGED <<filename, real_time, nbuffers>>

----------------------------------------------------------------------------
(* stop: close the log. *)

\* Mutant: stop hands the result of fclose on.
stop_ret_fclose(closed) == closed

stop_ret(closed) == TRUE

\* stop with one slip: leak, the stream is not closed; reset, the location
\* is put back to its default; complain, a CLOSE error is posted also when
\* no stream is held.
StopWith(leak, reset, complain) ==
    /\ IF file # NULL
       THEN \E wr \in 0..Len(streams[file].buf), cerr \in BOOLEAN :
            LET st == streams[file]
                failed == wr < Len(st.buf) \/ cerr
            IN
            /\ fs' = IF leak THEN fs
                      ELSE [fs EXCEPT ![st.path].data =
                               WriteOut(@, SubSeq(st.buf, 1, wr))]
            /\ streams' = IF leak THEN streams
                           ELSE [streams EXCEPT ![file] =
                                    [st EXCEPT !.buf = <<>>, !.open = FALSE]]
            /\ last' = Call("stop", file, TRUE,
                             IF failed THEN "fail" ELSE "ok",
                             IF failed
                             THEN <<ElementError("CLOSE", filename)>>
                             ELSE <<>>,
                             "none")
            /\ period' = [period EXCEPT !.ioerr = @ \/ failed]
       ELSE /\ last' = Call("stop", NULL, TRUE, "none",
                             IF complain
                             THEN <<ElementError("CLOSE", filename)>>
                             ELSE <<>>,
                             "none")
            /\ UNCHANGED <<fs, streams, period>>
    /\ file' = NULL
    /\ active' = FALSE
    /\ filename' = IF reset THEN DEFAULT_FILENAME ELSE filename
    /\ UNCHANGED <<real_time, nbuffers>>

\* Mutant: stop forgets the fclose.
stop_leak == StopWith(TRUE, FALSE, FALSE)

\* Mutant: stop puts the location back to its default.
stop_resets_location == StopWith(FALSE, TRUE, FALSE)

\* Mutant: stop reports a close error without looking at the handle.
stop_complains == StopWith(FALSE, FALSE, TRUE)

\* fclose flushes the buffer and closes the descriptor.  wr: how many of the
\* buffered lines the operating system takes; cerr: whether close(2) fails.
\* fclose returns nonzero when either went wrong; the stream is gone anyway.
stop ==
    /\ IF file # NULL
       THEN \E wr \in 0..Len(streams[file].buf), cerr \in BOOLEAN :
            LET st == streams[file]
                failed == wr < Len(st.buf) \/ cerr
            IN
            /\ fs' = [fs EXCEPT ![st.path].data =
                         WriteOut(@, SubSeq(st.buf, 1, wr))]
            /\ streams' = [streams EXCEPT ![file] =
                              [st EXCEPT !.buf = <<>>, !.open = FALSE]]
            /\ last' = Call("stop", file, stop_ret(~failed),
                             IF failed THEN "fail" ELSE "ok",
                             IF failed
                             THEN <<ElementError("CLOSE", filename)>>
                             ELSE <<>>,
                             "none")
            /\ period' = [period EXCEPT !.ioerr = @ \/ failed]
       ELSE /\ last' = Call("stop", NULL, stop_ret(TRUE), "none", <<>>, "none")
            /\ UNCHANGED <<fs, streams, period>>
    /\ file' = NULL
    /\ active' = FALSE
    /\ UNCHANGED <<filename, real_time, nbuffers>>

----------------------------------------------------------------------------
(* transform_ip: record one buffer. *)

\* g_get_current_time reads the system's wall clock, which runs on between
\* two buffers unless it is set (by hand, by a time service): any reading
\* can follow any other.  Two readings, in seconds, show every order.
g_get_current_time == {0, 1}

\* Mutant: the sentinel is not looked for.
ShouldRecordAlways(timestamp) == TRUE

ShouldRecord(timestamp) == timestamp # GST_CLOCK_TIME_NONE

\* Mutant: a failed g_fprintf ends the flow.
transform_ip_ret_checked(io) ==
    IF io = "fail" THEN "GST_FLOW_ERROR" ELSE GST_FLOW_OK

transform_ip_ret(io) == GST_FLOW_OK

\* The buffer is only read.
transform_ip_buf(buf) == buf

\* The base class hands buffers over only between a start that returned
\* TRUE and the following stop.  wr: -1 when the line stays in the stream's
\* buffer, else stdio flushes the buffer during g_fprintf and the operating
\* system takes wr of its lines (all of them: the write succeeded).
transform_ip(buf) ==
    /\ active
    /\ nbuffers < MaxUnits
    /\ nbuffers' = nbuffers + 1
    /\ LET timestamp == GST_BUFFER_TIMESTAMP(buf) IN
       IF ShouldRecord(timestamp)
       THEN \E now \in g_get_current_time,
               wr \in -1..(Len(streams[file].buf) + 1) :
            LET s == g_time_val_to_iso8601(now)
                line == FormatLine(timestamp, s)
                st == streams[file]
                buffered == Buffered(st.buf, line)
                failed == wr >= 0 /\ wr < Len(buffered)
                io == IF failed THEN "fail" ELSE "ok"
            IN
            /\ real_time' = now
            /\ streams' = [streams EXCEPT ![file] =
                              IF wr < 0 THEN [st EXCEPT !.buf = buffered]
                              ELSE [st EXCEPT !.buf = <<>>]]
            /\ fs' = IF wr < 0 THEN fs
                      ELSE [fs EXCEPT ![st.path].data =
                               WriteOut(@, SubSeq(buffered, 1, wr))]
            /\ last' = Call("transform_ip", buf, transform_ip_ret(io), io,
                             <<>>, transform_ip_buf(buf))
            /\ period' = [period EXCEPT
                              !.units = Append(@, timestamp),
                              !.ioerr = @ \/ failed,
                              !.setback = @ \/ (now < real_time /\
                                  \E i \in 1..Len(period.units) :
                                      ShouldRecord(period.units[i]))]
       ELSE /\ last' = Call("transform_ip", buf, transform_ip_ret("none"),
                             "none", <<>>, transform_ip_buf(buf))
            /\ period' = [period EXCEPT !.units = Append(@, timestamp)]
            /\ UNCHANGED <<streams, fs, real_time>>
    /\ UNCHANGED <<filename, file, active>>

----------------------------------------------------------------------------

Next ==
    \/ \E location \in Locations : set_property(location)
    \/ \E ok \in BOOLEAN : start(ok)
    \/ stop
    \/ \E buf \in Buffers : transform_ip(buf)

Spec == Init /\ [][Next]_vars

\* The hooks as GstBaseTransform calls them: start when the element is not
\* started, stop when it is, so that the two alternate.
activate(ok) == ~active /\ start(ok)

deactivate == active /\ stop

NextFramework ==
    \/ \E location \in Locations : set_property(location)
    \/ \E ok \in BOOLEAN : activate(ok)
    \/ deactivate
    \/ \E buf \in Buffers : transform_ip(buf)

SpecFramework == Init /\ [][NextFramework]_vars

\* One period with one buffer, its timestamp drawn from a wide range:
\* around the minute, the hour, ten hours and a hundred hours, with
\* fractions at both ends.
WideSeconds ==
    {0, 1, 59, 60, 61, 3599, 3600, 3661, 35999, 36000, 359999, 360000}
WideNanos == {0, 1, 500000000, 999999999}
WideTimestamps ==
    {GST_CLOCK_TIME_NONE} \cup {<<sec, ns>> : sec \in WideSeconds, ns \in WideNanos}
WideBuffers == [pts : WideTimestamps, data : {"payload"}]

first_buffer(buf) == nbuffers = 0 /\ transform_ip(buf)

NextFormat ==
    \/ \E ok \in BOOLEAN : activate(ok)
    \/ deactivate
    \/ \E buf \in WideBuffers : first_buffer(buf)

SpecFormat == Init /\ [][NextFormat]_vars

----------------------------------------------------------------------------
(* Negotiation: the accept_caps hook. *)

GST_PAD_SRC == "GST_PAD_SRC"
GST_PAD_SINK == "GST_PAD_SINK"
Directions == {GST_PAD_SRC, GST_PAD_SINK}

GST_BASE_TRANSFORM_SINK_PAD == "sink"
GST_BASE_TRANSFORM_SRC_PAD == "src"

\* The pad templates are GST_STATIC_CAPS_ANY: any caps can be asked about.
Caps == {"video/x-raw", "audio/x-raw"}

\* What is linked to a pad: nothing, or a peer that accepts some caps.
Peers ==
    {[linked |-> FALSE, accepts |-> {}]}
        \cup [linked : {TRUE}, accepts : SUBSET Caps]

\* A pad without a peer answers TRUE; otherwise the peer answers.
gst_pad_peer_query_accept_caps(peer, caps) ==
    IF peer.linked THEN caps \in peer.accepts ELSE TRUE

\* Mutant: the query goes to the peer of the pad it came in on.
accept_caps_same_pad(direction) ==
    IF direction = GST_PAD_SRC
    THEN GST_BASE_TRANSFORM_SRC_PAD
    ELSE GST_BASE_TRANSFORM_SINK_PAD

accept_caps_pad(direction) ==
    IF direction = GST_PAD_SRC
    THEN GST_BASE_TRANSFORM_SINK_PAD
    ELSE GST_BASE_TRANSFORM_SRC_PAD

\* peers: what the sink pad and the source pad are linked to at the call.
\* The query that goes out is kept in the call record's buf field.
accept_caps(direction, caps, peers) ==
    LET pad == accept_caps_pad(direction)
    IN
    /\ last' = Call("accept_caps",
                     [direction |-> direction, caps |-> caps,
                      peers |-> peers],
                     gst_pad_peer_query_accept_caps(peers[pad], caps),
                     "none", <<>>,
                     [pad |-> pad, caps |-> caps])
    /\ UNCHANGED <<filename, file, streams, fs, real_time, active, period,
                   nbuffers>>

NextNegotiation ==
    \/ \E location \in Locations : set_property(location)
    \/ \E ok \in BOOLEAN : start(ok)
    \/ stop
    \/ \E direction \in Directions, caps \in Caps,
          peers \in [{GST_BASE_TRANSFORM_SINK_PAD,
                      GST_BASE_TRANSFORM_SRC_PAD} -> Peers] :
          accept_caps(direction, caps, peers)

SpecNegotiation == Init /\ [][NextNegotiation]_vars

----------------------------------------------------------------------------
(* Reading a log back. *)

IsPrefix(a, b) == Len(a) <= Len(b) /\ SubSeq(b, 1, Len(a)) = a

\* The position of the first character c of s.
IndexOf(s, c) ==
    CHOOSE i \in 1..Len(s) : s[i] = c /\ \A j \in 1..(i - 1) : s[j] # c

Before(s, c) == SubSeq(s, 1, IndexOf(s, c) - 1)
After(s, c) == SubSeq(s, IndexOf(s, c) + 1, Len(s))

\* The <relative> column of a line: what stands before the first space.
RelativeField(line) == Before(line, " ")

DigitValue(c) == CHOOSE d \in 0..9 : DigitChars[d + 1] = c

RECURSIVE Number(_)
Number(s) ==
    IF s = <<>> THEN 0
    ELSE Number(SubSeq(s, 1, Len(s) - 1)) * 10 + DigitValue(s[Len(s)])

\* hours:minutes:seconds.nanoseconds read back as <<seconds, nanoseconds>>.
ParseRelative(field) ==
    LET hours == Before(field, ":")
        minutes == Before(After(field, ":"), ":")
        seconds == Before(After(After(field, ":"), ":"), ".")
        nanos == After(field, ".")
    IN <<Number(hours) * 60 * 60 + Number(minutes) * 60 + Number(seconds),
         Number(nanos)>>

\* The timestamped ones among the buffers of the period, in arrival order.
SetUnits == SelectSeq(period.units, GST_CLOCK_TIME_IS_VALID)

\* data holds one line per timestamped buffer of the period, in arrival
\* order, each carrying that buffer's relative timestamp.
LogMatches(data) ==
    /\ Len(data) = Len(SetUnits)
    /\ \A i \in 1..Len(SetUnits) :
          ParseRelative(RelativeField(data[i])) = SetUnits[i]

\* stop has just closed the stream of a period, and the location is the
\* one that period opened.
CycleDone ==
    last.op = "stop" /\ last.io # "none" /\ filename = period.path

----------------------------------------------------------------------------
(* The claims. *)

C2_ImmediateWrite ==
    (active /\ ~period.ioerr) => LogMatches(fs[period.path].data)

\* C3: when the location cannot be opened, start posts an OPEN_WRITE error,
\* returns FALSE, the element is not active, the handle is NULL and no file
\* is created or changed.
C3_OpenFailure ==
    [][(last'.op = "start" /\ last'.io = "fail") =>
          /\ last'.ret = FALSE
          /\ ~active'
          /\ file' = NULL
          /\ fs' = fs
          /\ Len(last'.posted) = 1
          /\ last'.posted[1].code = "OPEN_WRITE"]_vars

\* A failed start after an earlier period of the same instance was opened
\* and closed.
C3_Witness ==
    /\ last.op = "start"
    /\ last.io = "fail"
    /\ \E h \in 1..Len(streams) : ~streams[h].open

\* C4: stop can be called in every state, returns TRUE and leaves the
\* element inactive with the handle NULL, also when fclose fails; a failed
\* fclose posts a CLOSE error and nothing else does.
C4_StopCompletes ==
    /\ ENABLED stop
    /\ last.op = "stop" =>
          /\ last.ret = TRUE
          /\ file = NULL
          /\ ~active
          /\ (last.io = "fail" =>
                 Len(last.posted) = 1 /\ last.posted[1].code = "CLOSE")
          /\ (last.io # "fail" => last.posted = <<>>)

C4_Witness == last.op = "stop" /\ last.io = "fail" /\ last.ret = TRUE

\* C5: a failed append of record is reported on the error channel.
C5_WriteFailureReported ==
    (last.op = "transform_ip" /\ last.io = "fail") => last.posted # <<>>

\* C6: whatever the timestamp and however the write went, transform_ip
\* returns GST_FLOW_OK and leaves the buffer as it was.
C6_PassThrough ==
    last.op = "transform_ip" =>
        last.ret = GST_FLOW_OK /\ last.buf = last.arg

C6_Witness ==
    /\ last.op = "transform_ip"
    /\ last.io = "fail"
    /\ last.ret = GST_FLOW_OK

\* C7: transform_ip of a buffer whose timestamp is GST_CLOCK_TIME_NONE
\* makes no stdio call, reads no clock, changes neither the files, the
\* streams, the handle, the location nor whether the element is active, and
\* returns GST_FLOW_OK.
C7_UnsetIsNoOp ==
    [][(last'.op = "transform_ip"
            /\ ~GST_CLOCK_TIME_IS_VALID(GST_BUFFER_TIMESTAMP(last'.arg))) =>
          /\ last'.io = "none"
          /\ last'.ret = GST_FLOW_OK
          /\ UNCHANGED <<fs, streams, file, filename, active, real_time>>]_vars

\* An unset buffer has passed while a line was waiting in the buffer of the
\* stream.
C7_Witness ==
    /\ last.op = "transform_ip"
    /\ ~GST_CLOCK_TIME_IS_VALID(GST_BUFFER_TIMESTAMP(last.arg))
    /\ file # NULL
    /\ streams[file].buf # <<>>

\* C8: right after a start that returned TRUE the file at the location
\* exists and is empty; and a period in which nothing was recorded leaves
\* its log empty when stop has closed it, whatever an earlier period wrote.
C8_Truncate ==
    /\ (last.op = "start" /\ last.ret = TRUE) =>
          /\ fs[filename].exists
          /\ fs[filename].data = <<>>
          /\ streams[file].buf = <<>>
    /\ (last.op = "stop" /\ last.io # "none" /\ SetUnits = <<>>) =>
          fs[period.path].data = <<>>

\* activate, record, deactivate, activate, deactivate on one location.
C8_Witness ==
    /\ last.op = "stop"
    /\ last.io = "ok"
    /\ period.truncated
    /\ period.units = <<>>
    /\ fs[period.path].data = <<>>

\* C9, as stated: after each operation the content of every log has the
\* content before it as a prefix.
C9_Original ==
    [][\A p \in Locations : IsPrefix(fs[p].data, fs'[p].data)]_vars

\* C9, amended: that holds of every operation but a start that returns
\* TRUE, which empties the log at the location it opens and leaves the
\* other logs alone.
C9_AppendOnly ==
    [][\A p \in Locations :
          \/ IsPrefix(fs[p].data, fs'[p].data)
          \/ /\ last'.op = "start"
             /\ last'.ret = TRUE
             /\ p = filename
             /\ fs'[p].data = <<>>]_vars

\* Two flushes of one period have reached the log.
C9_Witness ==
    /\ last.op = "transform_ip"
    /\ last.io = "ok"
    /\ streams[file].buf = <<>>
    /\ Len(fs[period.path].data) = 2

\* C10: set_property is accepted while active and changes only the
\* location; transform_ip goes on writing to the path the period opened;
\* the next start opens the location as it is then.
C10_LocationAtNextStart ==
    [][/\ last'.op = "set_property" =>
             /\ filename' = last'.arg
             /\ get_property' = last'.arg
             /\ UNCHANGED <<file, streams, fs, active>>
       /\ last'.op = "transform_ip" =>
             /\ file # NULL
             /\ streams[file].path = period.path
             /\ \A p \in Locations \ {period.path} : fs'[p] = fs[p]
       /\ (last'.op = "start" /\ last'.ret = TRUE) =>
             /\ streams'[file'].path = filename
             /\ period'.path = filename]_vars

\* A line has reached the log opened at activation after the location was
\* set to another path.
C10_Witness ==
    /\ last.op = "transform_ip"
    /\ last.io = "ok"
    /\ active
    /\ filename = "out.log"
    /\ period.path = DEFAULT_FILENAME
    /\ fs[DEFAULT_FILENAME].data # <<>>
    /\ ~fs["out.log"].exists

\* The streams that are open.
OpenStreams == {h \in DOMAIN streams : streams[h].open}

\* C11: when start and stop alternate, the instance has at most one stream
\* open: exactly the one it holds while active, and none, with the handle
\* NULL, while inactive.
C11_OneResource ==
    /\ Cardinality(OpenStreams) <= 1
    /\ IF active THEN OpenStreams = {file}
       ELSE OpenStreams = {} /\ file = NULL

\* Inactive again after a stop whose fclose failed, in a second period.
C11_Witness ==
    /\ last.op = "stop"
    /\ last.io = "fail"
    /\ Len(streams) = 2
    /\ OpenStreams = {}

\* The elements of a sequence.
Range(s) == {s[i] : i \in 1..Len(s)}

\* Every line there is: in the files and in the buffers of the streams.
AllLines ==
    UNION {Range(fs[p].data) : p \in Locations}
        \cup UNION {Range(streams[h].buf) : h \in DOMAIN streams}

IsDigits(s) == \A i \in 1..Len(s) : s[i] \in Range(DigitChars)

HoursOf(field) == Before(field, ":")
MinutesOf(field) == Before(After(field, ":"), ":")
SecondsOf(field) == Before(After(After(field, ":"), ":"), ".")
NanosOf(field) == After(field, ".")

\* line is "<relative> <absolute>\n" with one space and one newline, and
\* <relative> is digits:2 digits:2 digits.9 digits; the hours are two digits
\* (padded) or the plain decimal number (not padded).
LineShape(line, padded) ==
    /\ Cardinality({i \in 1..Len(line) : line[i] = " "}) = 1
    /\ Cardinality({i \in 1..Len(line) : line[i] = "\n"}) = 1
    /\ line[Len(line)] = "\n"
    /\ Len(After(line, " ")) >= 2
    /\ LET rel == RelativeField(line) IN
       /\ IsDigits(HoursOf(rel))
       /\ IF padded THEN Len(HoursOf(rel)) = 2
          ELSE HoursOf(rel) = Unsigned(Number(HoursOf(rel)))
       /\ IsDigits(MinutesOf(rel)) /\ Len(MinutesOf(rel)) = 2
       /\ IsDigits(SecondsOf(rel)) /\ Len(SecondsOf(rel)) = 2
       /\ IsDigits(NanosOf(rel)) /\ Len(NanosOf(rel)) = 9

LastLine ==
    IF streams[file].buf # <<>>
    THEN streams[file].buf[Len(streams[file].buf)]
    ELSE fs[streams[file].path].data[Len(fs[streams[file].path].data)]

Printed ==
    /\ last.op = "transform_ip"
    /\ GST_CLOCK_TIME_IS_VALID(GST_BUFFER_TIMESTAMP(last.arg))
    /\ last.io = "ok"

\* C13: the <relative> field of a printed line, read back as hours * 3600
\* + minutes * 60 + seconds whole seconds and the fraction in nanoseconds,
\* is the timestamp of the buffer, with minutes and seconds in 0..59 and
\* the fraction in 0..999999999.
C13_RoundTrip ==
    Printed =>
        LET rel == RelativeField(LastLine) IN
        /\ ParseRelative(rel) = GST_BUFFER_TIMESTAMP(last.arg)
        /\ Number(MinutesOf(rel)) \in 0..59
        /\ Number(SecondsOf(rel)) \in 0..59
        /\ Number(NanosOf(rel)) \in 0..999999999

C13_Witness ==
    /\ Printed
    /\ GST_BUFFER_TIMESTAMP(last.arg) = <<359999, 999999999>>
    /\ ParseRelative(RelativeField(LastLine)) = <<359999, 999999999>>

\* The <absolute> column of a line, as the clock reading it prints: the
\* seconds of the ISO 8601 text.
AbsoluteOf(line) ==
    LET text == Before(After(line, " "), "\n") IN Number(<<text[2], text[3]>>)

\* The lines of the current period, in line order: those in its log and
\* those still in the buffer of its stream.
PeriodLines ==
    fs[period.path].data \o (IF file # NULL THEN streams[file].buf ELSE <<>>)

NonDecreasing(lines) ==
    \A i, j \in 1..Len(lines) :
        i < j => AbsoluteOf(lines[i]) <= AbsoluteOf(lines[j])

\* C14, as stated: within one active period the absolute column is
\* non-decreasing in line order.
C14_Original == active => NonDecreasing(PeriodLines)

\* C14, amended: that holds of a period in which the wall clock was not set
\* back between two recorded buffers.
C14_AbsoluteOrder == (active /\ ~period.setback) => NonDecreasing(PeriodLines)

\* Two lines of one period with different clock readings.
C14_Witness ==
    /\ active
    /\ ~period.setback
    /\ Len(PeriodLines) = 2
    /\ AbsoluteOf(PeriodLines[1]) < AbsoluteOf(PeriodLines[2])

\* C15: when the hooks are called in the framework's order, in every state
\* in which transform_ip can be called the handle is not NULL and is a
\* stream that g_fopen returned and fclose has not closed.
C15_HandleValid ==
    active =>
        /\ file # NULL
        /\ file \in DOMAIN streams
        /\ streams[file].open

\* transform_ip has printed into the stream of a second period.
C15_Witness ==
    /\ Printed
    /\ active
    /\ file = 2
    /\ streams[file].open
    /\ ~streams[1].open

\* C16: an OPEN_WRITE or CLOSE error carries the path of the file the
\* failing call acted on: the location start tried to open, and for stop the
\* file that was being closed, the one opened at activation, also when the
\* location was set to another path since.
C16_ErrorPath ==
    /\ (last.op = "start" /\ last.io = "fail") =>
          /\ Len(last.posted) = 1
          /\ last.posted[1].path = last.arg
    /\ (last.op = "stop" /\ last.io = "fail") =>
          /\ Len(last.posted) = 1
          /\ last.posted[1].path = streams[last.arg].path

\* C17: a start while a stream is held replaces the handle and leaves the
\* earlier stream as it is, open; and a stream that is open but no longer
\* held is left alone and never held again by any operation, so that no
\* later stop closes it: stop closes the stream it holds and no other.
C17_DoubleStart ==
    [][/\ (last'.op = "start" /\ file # NULL) =>
             /\ file' # file
             /\ streams'[file] = streams[file]
             /\ streams'[file].open
       /\ \A h \in DOMAIN streams :
             (streams[h].open /\ h # file) =>
                 (streams'[h] = streams[h] /\ h # file')]_vars

\* After start, start, stop: the second stream is closed, the first is
\* still open.
C17_Witness ==
    /\ last.op = "stop"
    /\ last.io # "none"
    /\ last.arg = 2
    /\ streams[1].open
    /\ ~streams[2].open
    /\ file = NULL

\* C18: stop while no stream is held calls no fclose, posts nothing,
\* leaves the handle NULL, the location, the files and the streams as they
\* are, and returns TRUE.
C18_IdleStop ==
    [][(last'.op = "stop" /\ file = NULL) =>
          /\ last'.io = "none"
          /\ last'.posted = <<>>
          /\ last'.ret = TRUE
          /\ file' = NULL
          /\ UNCHANGED <<filename, fs, streams>>]_vars

\* A second stop in a row, with a log written by the period before.
C18_Witness ==
    /\ last.op = "stop"
    /\ last.io = "none"
    /\ \E h \in DOMAIN streams : ~streams[h].open
    /\ \E p \in Locations : fs[p].data # <<>>

\* C19: the location reads as the default until it is set, then as the
\* value last set; start, transform_ip and stop leave it alone.
C19_Location ==
    /\ get_property = DEFAULT_FILENAME
    /\ [][((last'.op = "set_property") => (get_property' = last'.arg))
           /\ ((last'.op \in {"start", "stop", "transform_ip"}) =>
                 (get_property' = get_property))]_vars

\* The location set to another path has gone through a start, a buffer
\* and a stop.
C19_Witness ==
    /\ get_property = "out.log"
    /\ last.op = "stop"
    /\ last.io # "none"
    /\ period.units # <<>>
    /\ period.path = "out.log"

\* C20: accept_caps sends the caps it was given, as they are, to the peer
\* of the sink pad when asked in the source direction and to the peer of
\* the source pad otherwise; where that pad has a peer, the result is the
\* peer's answer, whatever the caps; and the call changes nothing of the
\* element: location, handle, streams, files, started state.
C20_Forward ==
    /\ [](last.op = "accept_caps" =>
            LET opposite == IF last.arg.direction = "GST_PAD_SRC"
                            THEN "sink" ELSE "src"
            IN
            /\ last.buf = [pad |-> opposite, caps |-> last.arg.caps]
            /\ last.arg.peers[opposite].linked =>
                  (last.ret <=>
                      (last.arg.caps \in last.arg.peers[opposite].accepts)))
    /\ [][(last'.op = "accept_caps") =>
             UNCHANGED <<filename, file, streams, fs, real_time, active,
                         period, nbuffers>>]_vars

\* While a log is open, a query in the source direction that the sink
\* pad's peer refuses and the source pad's peer would accept.
C20_Witness ==
    /\ last.op = "accept_caps"
    /\ last.arg.direction = "GST_PAD_SRC"
    /\ file # NULL
    /\ last.arg.peers["sink"].linked
    /\ last.arg.caps \notin last.arg.peers["sink"].accepts
    /\ last.arg.peers["src"].linked
    /\ last.arg.caps \in last.arg.peers["src"].accepts
    /\ last.ret = FALSE

====
